---- MODULE Spec2Model ----
\* Model of src/st.ts: the combined search pipeline (query expansion, dual
\* retrieval, reciprocal rank fusion, LLM reranking in batches, position-aware
\* blending) together with its pure helper functions, the lexical and the
\* vector search, the dispatch of the search commands, and the indexing of a
\* directory.
\*
\* Units.  Reranker scores are integers in hundredths (0.5 is 50, the failure
\* value 5 is 500).  Confidences are integers in tenths (1.0 is 10).  RRF
\* scores are integers in units of 1/RRFDenom.  Blended scores are exact
\* rationals <<numerator, denominator>>.  Strings that the code inspects
\* character by character are sequences of one-character strings.
EXTENDS Integers, Sequences, FiniteSets, TLC

\* ---------------------------------------------------------------- bounds
NumDocs == 2
MaxLen == 2
MaxSets == 2
MaxTokens == 2
MaxLines == 4
MaxRerankDocs == 6

\* Documents with a row in document_embeddings, for searchVector.
NumVecDocs == 11

\* Most fused candidates of the runs around the top-30 cut.
MaxFused == 31

\* Contents a file can have.
NumContents == 2

\* Largest AUTOINCREMENT id the runs of indexFiles may hand out.
MaxDocId == 4

\* Longest query of the exhaustive query set of searchBM25.
MaxQueryLen == 3

\* ------------------------------------------------------ program constants
RRF_K == 60
RERANK_CONCURRENCY == 5
RERANK_TOP == 30
DEFAULT_LIMIT == 5
EXPAND_KEEP == 3
FAIL_SCORE == 500
NEUTRAL_SCORE == 50

\* searchVector's limit = 5
VECTOR_LIMIT == 5

VARIABLES
    pc,             \* position of the running operation
    query,          \* the query given to the operation
    expandOutcome,  \* what the expansion model call produced
    queries,        \* expandQuery's return value
    expandCalls,    \* number of requests expandQuery has issued
    embedOutcomes,  \* what each embedding request produced, per query variant
    retrieved,      \* bm25Original, vecOriginal, bm25Expanded, vecExpanded
    resultSets,     \* the list handed to rrfFusion: [results, weight] records
    rrfScores,      \* rrfFusion's Map, as [id, score] records in insertion order
    sorted,         \* identifiers of the fused top candidates, in fused order
    batchStart,     \* rerankWithLLM's loop variable i
    inflight,       \* positions (in sorted) of rerank requests not yet resolved
    batchResults,   \* position -> score, the resolved requests of the batch
    started,        \* positions of every rerank request issued so far
    failedRequests, \* positions of the rerank requests that failed
    rerankResponses,\* position -> what the rerank request of that candidate produced
    rerankQuery,    \* the query rerankWithLLM was called with
    scores,         \* rerankWithLLM's Map: identifier -> score
    final,          \* searchCombined's return value: [id, score] records
    logprobs,       \* computeRerankScore's argument
    rerankScore,    \* computeRerankScore's return value
    rrfRank,        \* positionBlend's first argument
    rerankerScore,  \* positionBlend's second argument
    blended,        \* positionBlend's return value
    ftsOutcome,     \* what the full-text engine does with a MATCH expression
    ftsQuery,       \* searchBM25's ftsQuery: none, or the built expression
    ftsCalls,       \* number of queries made to the full-text engine
    bm25Results,    \* searchBM25's return value: [id, score] records
    docScores,      \* searchVector's Map, in insertion order: [id, score] records
    variant,        \* searchVector: number of query variants processed
    vectorResults,  \* searchVector's return value: [id, score] records
    cmd,            \* rawArgs[0]
    rawArgs,        \* rawArgs.slice(1)
    exitCode,       \* the code of process.exit, -1 before it is called
    cliOutput,      \* the message the command logged
    disk,           \* the indexed directory: path -> content of the file
    documents,      \* rows of the table documents of the collection
    documentsFts,   \* rows of documents_fts
    documentEmbeddings, \* rows of document_embeddings
    nextId          \* the next AUTOINCREMENT id of documents

vars == <<pc, query, expandOutcome, queries, expandCalls, embedOutcomes,
          retrieved, resultSets, rrfScores, sorted, batchStart, inflight,
          batchResults, started, failedRequests, rerankResponses, rerankQuery,
          scores, final, logprobs, rerankScore, rrfRank, rerankerScore, blended,
          ftsOutcome, ftsQuery, ftsCalls, bm25Results, docScores, variant,
          vectorResults, cmd, rawArgs, exitCode, cliOutput, disk, documents,
          documentsFts, documentEmbeddings, nextId>>

\* ---------------------------------------------------------------- helpers
Min(a, b) == IF a < b THEN a ELSE b

Max(a, b) == IF a > b THEN a ELSE b

Range(s) == {s[k] : k \in 1..Len(s)}

\* Sequences over S of length at most n.
SeqsUpTo(S, n) == UNION {[1..k -> S] : k \in 0..n}

\* Ranked lists: sequences over S of length at most n without repeats.
RankedLists(S, n) == {s \in SeqsUpTo(S, n) : Cardinality(Range(s)) = Len(s)}

\* Array.prototype.slice(0, n)
Take(s, n) == SubSeq(s, 1, Min(n, Len(s)))

\* Exact rationals <<numerator, denominator>>, denominators positive.
\* Decided on the continued fractions of a and b, so that no product of a
\* numerator and a denominator is formed.
RECURSIVE RatLess(_, _)
RatLess(a, b) ==
    IF a[1] \div a[2] # b[1] \div b[2] THEN a[1] \div a[2] < b[1] \div b[2]
    ELSE IF b[1] % b[2] = 0 THEN FALSE
    ELSE IF a[1] % a[2] = 0 THEN TRUE
    ELSE RatLess(<<b[2], b[1] % b[2]>>, <<a[2], a[1] % a[2]>>)

RatEq(a, b) == ~RatLess(a, b) /\ ~RatLess(b, a)

\* ------------------------------------------------------------- rrfFusion
\* Common denominator of the contributions weight/(rank + RRF_K) of the ranks
\* 1..n: the product of (rank + RRF_K).
RECURSIVE DenomUpTo(_)
DenomUpTo(n) == IF n = 0 THEN 1 ELSE (n + RRF_K) * DenomUpTo(n - 1)

RRFDenom == DenomUpTo(MaxLen)

\* (mutant) the reciprocal rank taken from the 0-based loop index
rrfScoreZeroBased(weight, rank) == weight * (RRFDenom \div (rank + RRF_K))

\* const rrfScore = weight / (rank + 1 + RRF_K), rank the 0-based loop index;
\* exact, in units of 1/RRFDenom.
rrfScore(weight, rank) == weight * (RRFDenom \div (rank + 1 + RRF_K))

\* Map.get(id): the position of id's entry in the insertion-ordered map, 0 if none.
MapIndex(m, id) ==
    IF \E k \in 1..Len(m) : m[k].id = id
    THEN CHOOSE k \in 1..Len(m) : m[k].id = id
    ELSE 0

\* The inner loop of rrfFusion over one result set, from 0-based index rank on.
RECURSIVE FuseSet(_, _, _, _)
FuseSet(results, weight, rank, acc) ==
    IF rank >= Len(results) THEN acc
    ELSE LET doc == results[rank + 1]
             existing == MapIndex(acc, doc)
         IN FuseSet(results, weight, rank + 1,
                IF existing # 0
                THEN [acc EXCEPT ![existing].score = @ + rrfScore(weight, rank)]
                ELSE Append(acc, [id |-> doc, score |-> rrfScore(weight, rank)]))

\* The outer loop of rrfFusion over the result sets, from set k on.
RECURSIVE FuseSets(_, _, _)
FuseSets(sets, k, acc) ==
    IF k > Len(sets) THEN acc
    ELSE FuseSets(sets, k + 1, FuseSet(sets[k].results, sets[k].weight, 0, acc))

rrfFusion(sets) == FuseSets(sets, 1, <<>>)

\* --------------------------------------------------- computeRerankScore
\* String.prototype.toLowerCase on the characters the tokens are made of.
LowerChar(c) ==
    CASE c = "Y" -> "y"
      [] c = "E" -> "e"
      [] c = "S" -> "s"
      [] c = "N" -> "n"
      [] c = "O" -> "o"
      [] OTHER -> c

toLowerCase(s) == [k \in 1..Len(s) |-> LowerChar(s[k])]

\* String.prototype.includes
includes(s, sub) ==
    \E k \in 0..(Len(s) - Len(sub)) : SubSeq(s, k + 1, k + Len(sub)) = sub

YES == <<"y", "e", "s">>

NO == <<"n", "o">>

\* Math.exp on the log-probabilities the model enumerates (in tenths of a nat),
\* rounded to tenths: exp(-5.0) = 0.007, exp(-0.7) = 0.497,
\* exp(-0.1) = 0.905, exp(0) = 1, exp(0.7) = 2.014.
exp(logprob) ==
    CASE logprob = -50 -> 0
      [] logprob = -7 -> 5
      [] logprob = -1 -> 9
      [] logprob = 0 -> 10
      [] logprob = 7 -> 20

Logprobs == {-50, -7, -1, 0, 7}

\* (mutant) the probability returned without the clamp to [0, 1]
logprobToConfidenceUnclamped(logprob) == exp(logprob)

\* Math.min(1, Math.max(0, Math.exp(logprob))), in tenths
logprobToConfidence(logprob) == Min(10, Max(0, exp(logprob)))

\* The scan of computeRerankScore from 0-based index i on; st carries yesIdx,
\* noIdx, yesLogprob and noLogprob (-1 means not found).
RECURSIVE ScanLabels(_, _, _)
ScanLabels(lps, i, st) ==
    IF i >= Len(lps) THEN st
    ELSE LET token == toLowerCase(lps[i + 1].token)
             s1 == IF st.yesIdx = -1 /\ includes(token, YES)
                   THEN [st EXCEPT !.yesIdx = i, !.yesLogprob = lps[i + 1].logprob]
                   ELSE st
             s2 == IF s1.noIdx = -1 /\ includes(token, NO)
                   THEN [s1 EXCEPT !.noIdx = i, !.noLogprob = lps[i + 1].logprob]
                   ELSE s1
         IN ScanLabels(lps, i + 1, s2)

\* (mutant) the last label seen wins instead of the first
computeRerankScoreLastWins(lps) ==
    LET st == ScanLabels(lps, 0, [yesIdx |-> -1, noIdx |-> -1,
                                  yesLogprob |-> 0, noLogprob |-> 0])
        isYes == st.yesIdx # -1 /\ (st.noIdx = -1 \/ st.yesIdx > st.noIdx)
        isNo == st.noIdx # -1 /\ (st.yesIdx = -1 \/ st.noIdx > st.yesIdx)
    IN IF isYes THEN 60 + logprobToConfidence(st.yesLogprob) * 4
       ELSE IF isNo THEN 40 - logprobToConfidence(st.noLogprob) * 4
       ELSE NEUTRAL_SCORE

\* computeRerankScore, in hundredths: 0.6 + confidence * 0.4 for "yes",
\* 0.4 - confidence * 0.4 for "no", 0.5 otherwise.
computeRerankScore(lps) ==
    LET st == ScanLabels(lps, 0, [yesIdx |-> -1, noIdx |-> -1,
                                  yesLogprob |-> 0, noLogprob |-> 0])
        isYes == st.yesIdx # -1 /\ (st.noIdx = -1 \/ st.yesIdx < st.noIdx)
        isNo == st.noIdx # -1 /\ (st.yesIdx = -1 \/ st.noIdx < st.yesIdx)
    IN IF isYes THEN 60 + logprobToConfidence(st.yesLogprob) * 4
       ELSE IF isNo THEN 40 - logprobToConfidence(st.noLogprob) * 4
       ELSE NEUTRAL_SCORE

\* --------------------------------------------------------- positionBlend
\* (mutant) the first tier ending at rank 2
retrieverWeightEarlyTier(rank) == IF rank <= 2 THEN 15 ELSE IF rank <= 10 THEN 12 ELSE 8

\* The tiered retriever weight, in twentieths: 0.75, 0.6, 0.4.
retrieverWeight(rank) == IF rank <= 3 THEN 15 ELSE IF rank <= 10 THEN 12 ELSE 8

\* retrieverWeight * (1 / rrfRank) + (1 - retrieverWeight) * rerankerScore,
\* as the exact rational over 2000 * rrfRank (score in hundredths).
positionBlend(rank, score) ==
    <<retrieverWeight(rank) * 100 + (20 - retrieverWeight(rank)) * score * rank,
      2000 * rank>>

\* ------------------------------------------------- searchCombined: helpers
\* Whether entry j comes before entry k after s.sort((a, b) => b.score - a.score)
\* on integer scores: larger score first, equal scores in their given order.
Precedes(s, j, k) ==
    s[j].score > s[k].score \/ (s[j].score = s[k].score /\ j < k)

\* [...rrfScores.values()].sort((a, b) => b.score - a.score)
sortByScoreDesc(s) ==
    LET pos(k) == 1 + Cardinality({j \in 1..Len(s) : j # k /\ Precedes(s, j, k)})
    IN [p \in 1..Len(s) |-> s[CHOOSE k \in 1..Len(s) : pos(k) = p]]

\* (mutant) equal blended scores come out in reverse order
BlendedPrecedesTiesReversed(s, j, k) ==
    RatLess(s[k].score, s[j].score) \/ (RatEq(s[j].score, s[k].score) /\ j > k)

\* The same order on blended (rational) scores.
BlendedPrecedes(s, j, k) ==
    RatLess(s[k].score, s[j].score) \/ (RatEq(s[j].score, s[k].score) /\ j < k)

\* final.sort((a, b) => b.score - a.score)
sortBlendedDesc(s) ==
    LET pos(k) == 1 + Cardinality({j \in 1..Len(s) : j # k /\ BlendedPrecedes(s, j, k)})
    IN [p \in 1..Len(s) |-> s[CHOOSE k \in 1..Len(s) : pos(k) = p]]

\* (mutant) every result set enters with weight 1
fusionInputUnweighted(r) ==
    <<[results |-> r.bm25Original, weight |-> 1],
      [results |-> r.vecOriginal, weight |-> 1]>>
    \o [k \in 1..Len(r.bm25Expanded) |-> [results |-> r.bm25Expanded[k], weight |-> 1]]
    \o [k \in 1..Len(r.vecExpanded) |-> [results |-> r.vecExpanded[k], weight |-> 1]]

\* The argument of the rrfFusion call: the original query's two result sets
\* with weight 2, then the expansions' lexical sets and the expansions' vector
\* sets with weight 1.
fusionInput(r) ==
    <<[results |-> r.bm25Original, weight |-> 2],
      [results |-> r.vecOriginal, weight |-> 2]>>
    \o [k \in 1..Len(r.bm25Expanded) |-> [results |-> r.bm25Expanded[k], weight |-> 1]]
    \o [k \in 1..Len(r.vecExpanded) |-> [results |-> r.vecExpanded[k], weight |-> 1]]

\* searchVectorSingle for an embedding request that did not throw: no vector
\* (non-success status, missing embedding field) gives no results.
searchVectorSingle(e) == IF e.kind = "ok" THEN e.results ELSE <<>>

\* (mutant) the first 30 fused entries in the order of the map
fusedTopUnsorted(m) ==
    LET s == Take(m, RERANK_TOP)
    IN [k \in 1..Len(s) |-> s[k].id]

\* sorted: the fused entries by descending score, the top 30, as identifiers.
fusedTop(m) ==
    LET s == Take(sortByScoreDesc(m), RERANK_TOP)
    IN [k \in 1..Len(s) |-> s[k].id]

\* rerankSingleDoc's score for what its request produced: the request
\* erroring or a non-success status give 5, an answer is scored by its
\* logprobs (none when the field is missing).
rerankSingleDoc(out) ==
    IF out.kind = "throw" THEN FAIL_SCORE
    ELSE IF out.kind = "notok" THEN FAIL_SCORE
    ELSE computeRerankScore(out.logprobs)

\* (mutant) a batch one request narrower than the step of the loop
batchEndNarrow(i, n) == Min(i + RERANK_CONCURRENCY - 1, n)

\* (mutant) a batch one request wider than the step of the loop
batchEndWide(i, n) == Min(i + RERANK_CONCURRENCY + 1, n)

\* docs.slice(i, i + RERANK_CONCURRENCY) covers the positions i+1..batchEnd(i, n).
batchEnd(i, n) == Min(i + RERANK_CONCURRENCY, n)

\* (mutant) only the last result of the batch is set
setAllLastOnly(m, results, ids) ==
    [id \in DOMAIN m \cup {ids[k] : k \in {j \in DOMAIN results : \A h \in DOMAIN results : h <= j}} |->
        IF \E k \in DOMAIN results : ids[k] = id /\ \A h \in DOMAIN results : h <= k
        THEN results[CHOOSE k \in DOMAIN results : ids[k] = id]
        ELSE m[id]]

\* for (const { id, score } of results) scores.set(id, score)
setAll(m, results, ids) ==
    [id \in DOMAIN m \cup {ids[k] : k \in DOMAIN results} |->
        IF \E k \in DOMAIN results : ids[k] = id
        THEN results[CHOOSE k \in DOMAIN results : ids[k] = id]
        ELSE m[id]]

\* rerankerScores.get(id) || 0.5
lookupRerankerScore(m, id) ==
    IF id \in DOMAIN m /\ m[id] # 0 THEN m[id] ELSE NEUTRAL_SCORE

\* sorted.map((s, idx) => ({...s.doc, score: positionBlend(idx + 1, rerankerScore)}))
blendAll(ids, m) ==
    [idx \in 1..Len(ids) |->
        [id |-> ids[idx],
         score |-> positionBlend(idx, lookupRerankerScore(m, ids[idx]))]]

\* final.sort((a, b) => b.score - a.score).slice(0, limit)
finalResults(ids, m, limit) == Take(sortBlendedDesc(blendAll(ids, m)), limit)

\* ------------------------------------------------------------ expandQuery
Markers == {"0", "1", "2", "3", "4", "5", "6", "7", "8", "9", ".", "-", "*", ")"}

Spaces == {" ", "\t", "\r", "\n"}

\* String.prototype.split("\n")
RECURSIVE split(_)
split(s) ==
    IF \E k \in 1..Len(s) : s[k] = "\n"
    THEN LET k == CHOOSE j \in 1..Len(s) : s[j] = "\n" /\ \A h \in 1..(j - 1) : s[h] # "\n"
         IN <<SubSeq(s, 1, k - 1)>> \o split(SubSeq(s, k + 1, Len(s)))
    ELSE <<s>>

\* s without its longest prefix of characters of S
RECURSIVE DropLeading(_, _)
DropLeading(s, S) ==
    IF Len(s) > 0 /\ s[1] \in S THEN DropLeading(Tail(s), S) ELSE s

\* s without its longest suffix of characters of S
RECURSIVE DropTrailing(_, _)
DropTrailing(s, S) ==
    IF Len(s) > 0 /\ s[Len(s)] \in S THEN DropTrailing(SubSeq(s, 1, Len(s) - 1), S) ELSE s

\* String.prototype.trim
trim(s) == DropTrailing(DropLeading(s, Spaces), Spaces)

\* l.replace(/^[\d.\-\*\)]+\s*/, "")
stripNumbering(l) ==
    IF Len(l) > 0 /\ l[1] \in Markers
    THEN DropLeading(DropLeading(l, Markers), Spaces)
    ELSE l

NonEmpty(l) == Len(l) > 0

\* (mutant) the first three lines taken before the empty ones are dropped
parseExpandedSliceFirst(response) ==
    LET lines == split(response)
        cleaned == [k \in 1..Len(lines) |-> trim(stripNumbering(lines[k]))]
    IN Take(cleaned, EXPAND_KEEP)

\* response.split("\n").map(strip and trim).filter(non-empty).slice(0, 3)
parseExpanded(response) ==
    LET lines == split(response)
        cleaned == [k \in 1..Len(lines) |-> trim(stripNumbering(lines[k]))]
    IN Take(SelectSeq(cleaned, NonEmpty), EXPAND_KEEP)

\* What the single request of expandQuery can produce: the request erroring,
\* a non-success status, a body without a response, a body with a response.
\* expandQuery maps each to its return value.
expandQuery(q, outcome) ==
    IF outcome.kind = "throw" THEN <<q>>
    ELSE IF outcome.kind = "notok" THEN <<q>>
    ELSE IF outcome.kind = "nobody" \/ Len(outcome.response) = 0 THEN <<q>>
    ELSE <<q>> \o parseExpanded(outcome.response)

\* Array.prototype.join("\n")
RECURSIVE join(_)
join(lines) ==
    IF Len(lines) = 0 THEN <<>>
    ELSE IF Len(lines) = 1 THEN lines[1]
    ELSE lines[1] \o <<"\n">> \o join(Tail(lines))

\* ------------------------------------------- buildSearchQuery, searchBM25
\* An optional value: <<>> is null, <<x>> is x.
IsNull(o) == Len(o) = 0

\* s.replace(/"/g, '""')
RECURSIVE escapeQuotes(_)
escapeQuotes(s) ==
    IF Len(s) = 0 THEN <<>>
    ELSE (IF s[1] = "\"" THEN <<"\"", "\"">> ELSE <<s[1]>>) \o escapeQuotes(Tail(s))

\* s.split(/\s+/)
RECURSIVE splitWhitespace(_)
splitWhitespace(s) ==
    IF \E k \in 1..Len(s) : s[k] \in Spaces
    THEN LET k == CHOOSE j \in 1..Len(s) : s[j] \in Spaces /\ \A h \in 1..(j - 1) : s[h] \notin Spaces
         IN <<SubSeq(s, 1, k - 1)>>
            \o splitWhitespace(DropLeading(SubSeq(s, k + 1, Len(s)), Spaces))
    ELSE <<s>>

LongerThanOne(t) == Len(t) > 1

\* Array.prototype.join(sep)
RECURSIVE joinWith(_, _)
joinWith(parts, sep) ==
    IF Len(parts) = 0 THEN <<>>
    ELSE IF Len(parts) = 1 THEN parts[1]
    ELSE parts[1] \o sep \o joinWith(Tail(parts), sep)

OR == <<" ", "O", "R", " ">>

NEAR == <<" ", "N", "E", "A", "R", " ">>

\* null for a query under 2 characters or without a term of 2 characters,
\* the term itself for one term, else
\* "the phrase" OR (t1 NEAR t2 ...) OR t1 OR t2 ...
buildSearchQuery(q) ==
    LET trimmed == trim(q)
        escaped == escapeQuotes(trimmed)
        terms == SelectSeq(splitWhitespace(escaped), LongerThanOne)
    IN IF Len(trimmed) < 2 THEN <<>>
       ELSE IF Len(terms) = 0 THEN <<>>
       ELSE IF Len(terms) = 1 THEN <<terms[1]>>
       ELSE <<joinWith(<<<<"\"">> \o escaped \o <<"\"">>,
                         <<"(">> \o joinWith(terms, NEAR) \o <<")">>,
                         joinWith(terms, OR)>>, OR)>>

\* 1 / (1 + exp(-(|score| - 5) / 3)) in thousandths, for the raw scores of the model
normalizeBM25(score) ==
    CASE score = -15 -> 966
      [] score = -10 -> 841
      [] score = -5 -> 500

\* (mutant) the engine's error is not caught
searchBM25Uncaught(q, engine) ==
    LET fq == buildSearchQuery(q)
    IN IF IsNull(fq) \/ Len(fq[1]) = 0
       THEN [ftsQuery |-> fq, queried |-> FALSE, threw |-> FALSE, results |-> <<>>]
       ELSE IF engine.kind = "error"
       THEN [ftsQuery |-> fq, queried |-> TRUE, threw |-> TRUE, results |-> <<>>]
       ELSE [ftsQuery |-> fq, queried |-> TRUE, threw |-> FALSE,
             results |-> [k \in 1..Len(engine.rows) |->
                            [id |-> engine.rows[k].id,
                             score |-> normalizeBM25(engine.rows[k].score)]]]

\* searchBM25 against an engine that answers the MATCH query with an error
\* or with rows: what was built, whether the engine was queried, whether
\* searchBM25 threw, and what it returned.
searchBM25(q, engine) ==
    LET fq == buildSearchQuery(q)
    IN IF IsNull(fq) \/ Len(fq[1]) = 0
       THEN [ftsQuery |-> fq, queried |-> FALSE, threw |-> FALSE, results |-> <<>>]
       ELSE IF engine.kind = "error"
       THEN [ftsQuery |-> fq, queried |-> TRUE, threw |-> FALSE, results |-> <<>>]
       ELSE [ftsQuery |-> fq, queried |-> TRUE, threw |-> FALSE,
             results |-> [k \in 1..Len(engine.rows) |->
                            [id |-> engine.rows[k].id,
                             score |-> normalizeBM25(engine.rows[k].score)]]]

\* ------------------------------------------------------------ searchVector
\* The distance column of the vector table for query embedding e and document
\* d: each embedding orders the documents differently, without ties.
distance(e, d) == (e.a * d + e.b) % 13

\* SELECT document_id, distance ... ORDER BY distance LIMIT n over the rows of
\* the documents ds.
nearest(e, ds, n) ==
    LET closer(d) == Cardinality({x \in ds : distance(e, x) < distance(e, d)})
        rows == [k \in 1..Cardinality(ds) |->
                    LET d == CHOOSE x \in ds : closer(x) = k - 1
                    IN [document_id |-> d, distance |-> distance(e, d)]]
    IN Take(rows, n)

\* (mutant) the scores of a document are added up
keepScoreSum(existing, score) ==
    <<existing[1] * score[2] + score[1] * existing[2], existing[2] * score[2]>>

\* if (score > existing) docScores.set(id, score): the value the map holds after
keepScore(existing, score) == IF RatLess(existing, score) THEN score ELSE existing

\* The map after one row r: existing is 0 for a document not in the map, a
\* new key is appended, a key already present keeps its place.
setDocScore(m, r) ==
    LET score == <<1, r.distance + 1>>
    IN IF \E k \in 1..Len(m) : m[k].id = r.document_id
       THEN LET k == CHOOSE j \in 1..Len(m) : m[j].id = r.document_id
            IN [m EXCEPT ![k].score = keepScore(m[k].score, score)]
       ELSE IF keepScore(<<0, 1>>, score) = <<0, 1>> THEN m
       ELSE Append(m, [id |-> r.document_id, score |-> keepScore(<<0, 1>>, score)])

\* for (const r of results) { ... }
RECURSIVE setDocScores(_, _)
setDocScores(m, rows) ==
    IF Len(rows) = 0 THEN m ELSE setDocScores(setDocScore(m, rows[1]), Tail(rows))

\* The entries sorted by descending score, the first limit of them, and of
\* these the ones whose document row exists.
topDocs(m, limit, ids) ==
    LET top == Take(sortBlendedDesc(m), limit)
    IN SelectSeq(top, LAMBDA t : t.id \in ids)

\* ------------------------------------------------------------ CLI dispatch
\* a.startsWith("--")
startsWithDashes(a) == Len(a) >= 2 /\ a[1] = "-" /\ a[2] = "-"

NotAFlag(a) == ~startsWithDashes(a)

\* The query of a command: search joins every argument, vsearch and query
\* join the arguments that do not start with "--".
commandQuery(c, args) ==
    IF c = "search" THEN joinWith(args, <<" ">>)
    ELSE joinWith(SelectSeq(args, NotAFlag), <<" ">>)

\* (mutant) the length is taken without trimming
tooShortUntrimmed(q) == Len(q) = 0 \/ Len(q) < 2

\* !query || query.trim().length < 2
tooShort(q) == Len(q) = 0 \/ Len(trim(q)) < 2

USAGE_ERROR == "Query must be at least 2 characters."

NO_RESULTS == "No results found."

\* -------------------------------------------------------------- indexFiles
\* basename(filePath): the last segment of the path
basename(p) == p[Len(p)]

\* Bun.hash(content).toString(16): a digest, distinct for the contents of the
\* model.
hash(content) == (7 * content + 3) % 16

\* The row of documents with the given path, as a set (UNIQUE(collection_id, path)).
rowsAt(docs, p) == {d \in docs : d.path = p}

\* indexedNames.add(fileName)
rememberName(names, name) == names \cup {name}

\* The body of the loop over the discovered files for the file p: a name
\* already indexed in this run is skipped, an unchanged file is skipped, a
\* known path is updated and a new one inserted, and the full-text row of the
\* document is replaced.  db holds documents, documentsFts, nextId and the names.
indexFile(db, files, p) ==
    LET name == basename(p)
        content == files[p]
        existing == rowsAt(db.documents, p)
        seen == [db EXCEPT !.names = rememberName(db.names, name)]
    IN IF name \in db.names THEN db
       ELSE IF \E d \in existing : d.hash = hash(content) THEN seen
       ELSE LET id == IF existing = {} THEN db.nextId
                      ELSE (CHOOSE d \in existing : TRUE).id
                row == [id |-> id, name |-> IF existing = {} THEN name
                                            ELSE (CHOOSE d \in existing : TRUE).name,
                        path |-> p, content |-> content, hash |-> hash(content)]
            IN [seen EXCEPT
                  !.documents = (db.documents \ existing) \cup {row},
                  !.documentsFts =
                      {f \in db.documentsFts : f.rowid # id}
                      \cup {[rowid |-> id, name |-> name, content |-> content]},
                  !.nextId = IF existing = {} THEN db.nextId + 1 ELSE db.nextId]

\* for (const filePath of files) { ... }
RECURSIVE indexLoop(_, _, _)
indexLoop(db, files, order) ==
    IF Len(order) = 0 THEN db
    ELSE indexLoop(indexFile(db, files, order[1]), files, Tail(order))

\* The ids of the documents whose file does not exist.
removedIds(docs, files) == {d.id : d \in {x \in docs : x.path \notin DOMAIN files}}

\* Orders in which the files of a directory can be discovered.
Orders(S) == {o \in [1..Cardinality(S) -> S] : Range(o) = S}

\* ----------------------------------------------------- inputs of the model
Docs == 1..NumDocs

\* The fusion weights searchCombined uses: 2 for the original query, 1 for an
\* expansion.
Weights == {1, 2}

Rankings == RankedLists(Docs, MaxLen)

\* Tokens of a reranker answer: the labels in several spellings, a token that
\* merely contains a label, a token holding both labels, a token holding none.
Tokens == {<<"y", "e", "s">>, <<"Y", "E", "S">>, <<"N", "o">>,
           <<"k", "n", "o", "w">>, <<"n", "o", "y", "e", "s">>, <<"o", "k">>}

LogProbLists == SeqsUpTo([token : Tokens, logprob : Logprobs], MaxTokens)

\* Lines a model answers an expansion request with.
Lines == {<<>>, <<" ">>, <<"a">>, <<"1", ".", " ", "b">>, <<"-", "-">>, <<" ", "c", " ">>}

Queries == {<<"a", "b">>, <<"-", " ", "a">>}

ExpandOutcomes ==
    {[kind |-> "throw"], [kind |-> "notok"], [kind |-> "nobody"]}
    \cup {[kind |-> "ok", response |-> join(ls)] : ls \in SeqsUpTo(Lines, MaxLines)}

\* Values positionBlend is called with: a confidence in [0, 1] or the failure score.
BlendScores == (0..100) \cup {FAIL_SCORE}

\* What an embedding request can produce: the request erroring, a non-success
\* status, a body without an embedding, or a vector, for which the vector
\* index returns a ranking.
EmbedOutcomes ==
    {[kind |-> "throw"], [kind |-> "notok"], [kind |-> "missing"]}
    \cup {[kind |-> "ok", results |-> r] : r \in Rankings}

\* Expansion outcomes of the pipeline runs: each failure, and one alternate.
PipelineExpandOutcomes ==
    {[kind |-> "throw"], [kind |-> "notok"], [kind |-> "nobody"],
     [kind |-> "ok", response |-> <<"1", ".", " ", "b">>]}

\* Reranker answers: no logprobs, a certain "yes", a certain "no".
RerankAnswers ==
    {<<>>, <<[token |-> <<"y", "e", "s">>, logprob |-> 0]>>,
     <<[token |-> <<"N", "o">>, logprob |-> 0]>>}

RerankOutcomes ==
    {[kind |-> "throw"], [kind |-> "notok"]}
    \cup {[kind |-> "ok", logprobs |-> a] : a \in RerankAnswers}

\* Characters of the queries given to searchBM25.
QueryChars == {"a", " ", "\"", "\n"}

BM25Queries ==
    SeqsUpTo(QueryChars, MaxQueryLen)
    \cup {<<"a", "b", " ", "c", "d">>, <<" ", "a", "\"", " ", " ", "b", "c", " ">>,
          <<"a", " ", "b">>}

\* Raw bm25() value of the row at position k of an answer: ascending, as
\* ORDER BY bm25(...) returns them.
RawBM25(k) == 5 * k - 20

\* What the full-text engine does with the MATCH query: it raises an error
\* (e.g. a syntax error in the expression) or returns rows.
FtsOutcomes ==
    {[kind |-> "error"]}
    \cup {[kind |-> "rows", rows |-> [k \in 1..Len(r) |-> [id |-> r[k], score |-> RawBM25(k)]]] :
            r \in Rankings}

\* The documents of the vector table; each has its row in documents.
VecDocs == 1..NumVecDocs

\* Query embeddings, as the coefficients of their distance column.
Embeddings == {[a |-> 1, b |-> 0], [a |-> 5, b |-> 3], [a |-> 12, b |-> 1]}

\* What the embedding request of a query variant can produce.
QueryEmbedOutcomes ==
    {[kind |-> "throw"], [kind |-> "notok"], [kind |-> "missing"]}
    \cup {[kind |-> "ok", embedding |-> e] : e \in Embeddings}

\* Expansion outcomes of searchVector's runs: failures, one and two alternates.
VectorExpandOutcomes ==
    {[kind |-> "throw"], [kind |-> "nobody"],
     [kind |-> "ok", response |-> <<"1", ".", " ", "b">>],
     [kind |-> "ok", response |-> <<"b", "\n", "-", " ", "c">>]}

\* Command lines of the search commands: no argument, one-character and
\* blank arguments, flags, and queries that are long enough.
ArgLists ==
    {<<>>, <<<<"a">>>>, <<<<" ">>>>, <<<<"-", "-", "d">>>>,
     <<<<"a">>, <<"-", "-", "d">>>>, <<<<" ">>, <<"a">>, <<" ">>>>,
     <<<<" ">>, <<" ">>, <<" ">>>>, <<<<"-", "-", "d">>, <<"-", "-", "d">>>>,
     <<<<"a", "b">>>>, <<<<"a">>, <<"b">>>>, <<<<"-", "-", "d">>, <<"a", "b">>>>}

\* Expansion outcomes with no, one, two and three alternates.
WideExpandOutcomes ==
    {[kind |-> "notok"],
     [kind |-> "ok", response |-> <<"b">>],
     [kind |-> "ok", response |-> <<"b", "\n", "c">>],
     [kind |-> "ok", response |-> <<"b", "\n", "c", "\n", "d", "\n", "e">>]}

\* A few rankings and embedding outcomes for the runs with several variants.
FewRankings == {<<>>, <<1>>, <<2, 1>>}

FewEmbedOutcomes ==
    {[kind |-> "throw"], [kind |-> "notok"],
     [kind |-> "ok", results |-> <<1, 2>>], [kind |-> "ok", results |-> <<2>>]}

\* Fused maps of 29 to MaxFused candidates, identified by their first-seen
\* position.  The scores stand for accumulated RRF scores (only their order
\* is read from here on): falling with the position, as for one result set;
\* equal for the positions k and k + 16, as for two disjoint result sets of
\* the same weight; higher for the candidates seen after the sixteenth, as
\* for candidates that later result sets agree on.
FusedScore(shape, k) ==
    IF shape = "falling" THEN 100 - k
    ELSE IF shape = "pairs" THEN 100 - ((k - 1) % 16)
    ELSE IF k <= 16 THEN 100 - k ELSE 150 - k

TopFusions ==
    {[k \in 1..n |-> [id |-> k, score |-> FusedScore(shape, k)]] :
        n \in 29..MaxFused, shape \in {"falling", "pairs", "risers"}}

\* The reranker's response for a candidate in the runs around the top-30 cut.
judgement(id) ==
    IF id % 4 = 0 THEN [kind |-> "notok"]
    ELSE IF id % 4 = 1 THEN [kind |-> "ok", logprobs |-> <<[token |-> <<"y", "e", "s">>, logprob |-> 0]>>]
    ELSE IF id % 4 = 2 THEN [kind |-> "ok", logprobs |-> <<[token |-> <<"N", "o">>, logprob |-> 0]>>]
    ELSE [kind |-> "ok", logprobs |-> <<>>]

\* A rerank request resolving with a failure (a non-success status) or with a
\* success.
SuccessOrFailure ==
    {[kind |-> "notok"],
     [kind |-> "ok", logprobs |-> <<[token |-> <<"y", "e", "s">>, logprob |-> 0]>>]}

\* Relative paths of text files under the indexed directory, as segments:
\* two files of the same name in two directories, and a third file.
FilePaths == {<<"x", "a">>, <<"y", "a">>, <<"b">>}

Contents == 1..NumContents

\* --------------------------------------------------------- variable groups
expandVars == <<query, expandOutcome, queries, expandCalls>>

retrieveVars == <<embedOutcomes, retrieved, resultSets, rrfScores>>

rerankVars == <<sorted, batchStart, inflight, batchResults, started,
                failedRequests, rerankResponses, rerankQuery, scores, final>>

scoreVars == <<logprobs, rerankScore>>

blendVars == <<rrfRank, rerankerScore, blended>>

lexicalVars == <<ftsOutcome, ftsQuery, ftsCalls, bm25Results>>

vectorVars == <<docScores, variant, vectorResults>>

cliVars == <<cmd, rawArgs, exitCode, cliOutput>>

indexVars == <<disk, documents, documentsFts, documentEmbeddings, nextId>>

commandVars == <<lexicalVars, vectorVars, cliVars, indexVars>>

ExpandIdle ==
    /\ query = <<>>
    /\ expandOutcome = [kind |-> "none"]
    /\ queries = <<>>
    /\ expandCalls = 0

NothingRetrieved ==
    [bm25Original |-> <<>>, vecOriginal |-> <<>>,
     bm25Expanded |-> <<>>, vecExpanded |-> <<>>]

RetrieveIdle ==
    /\ embedOutcomes = <<>>
    /\ retrieved = NothingRetrieved
    /\ resultSets = <<>>
    /\ rrfScores = <<>>

RerankIdle ==
    /\ sorted = <<>>
    /\ batchStart = 0
    /\ inflight = {}
    /\ batchResults = <<>>
    /\ started = {}
    /\ failedRequests = {}
    /\ rerankResponses = <<>>
    /\ rerankQuery = <<>>
    /\ scores = <<>>
    /\ final = <<>>

ScoreIdle ==
    /\ logprobs = <<>>
    /\ rerankScore = -1

BlendIdle ==
    /\ rrfRank = 0
    /\ rerankerScore = 0
    /\ blended = <<0, 1>>

LexicalIdle ==
    /\ ftsOutcome = [kind |-> "none"]
    /\ ftsQuery = <<>>
    /\ ftsCalls = 0
    /\ bm25Results = <<>>

VectorIdle ==
    /\ docScores = <<>>
    /\ variant = 0
    /\ vectorResults = <<>>

CliIdle ==
    /\ cmd = "none"
    /\ rawArgs = <<>>
    /\ exitCode = -1
    /\ cliOutput = ""

IndexIdle ==
    /\ disk = <<>>
    /\ documents = {}
    /\ documentsFts = {}
    /\ documentEmbeddings = {}
    /\ nextId = 1

CommandsIdle == LexicalIdle /\ VectorIdle /\ CliIdle /\ IndexIdle

\* ------------------------------------------- rrfFusion on its own (SpecFusion)
InitFusion ==
    /\ pc = "rrfFusion"
    /\ resultSets \in SeqsUpTo([results : Rankings, weight : Weights], MaxSets)
    /\ embedOutcomes = <<>>
    /\ retrieved = NothingRetrieved
    /\ rrfScores = <<>>
    /\ ExpandIdle /\ RerankIdle /\ ScoreIdle /\ BlendIdle
    /\ CommandsIdle

CallFusion ==
    /\ pc = "rrfFusion"
    /\ rrfScores' = rrfFusion(resultSets)
    /\ pc' = "fusionDone"
    /\ UNCHANGED <<embedOutcomes, retrieved, resultSets, expandVars, rerankVars,
                   scoreVars, blendVars, commandVars>>

NextFusion == CallFusion

SpecFusion == InitFusion /\ [][NextFusion]_vars

\* ------------------------------- computeRerankScore on its own (SpecRerankScore)
InitRerankScore ==
    /\ pc = "computeRerankScore"
    /\ logprobs \in LogProbLists
    /\ rerankScore = -1
    /\ ExpandIdle /\ RetrieveIdle /\ RerankIdle /\ BlendIdle
    /\ CommandsIdle

CallComputeRerankScore ==
    /\ pc = "computeRerankScore"
    /\ rerankScore' = computeRerankScore(logprobs)
    /\ pc' = "scoreDone"
    /\ UNCHANGED <<logprobs, expandVars, retrieveVars, rerankVars, blendVars, commandVars>>

NextRerankScore == CallComputeRerankScore

SpecRerankScore == InitRerankScore /\ [][NextRerankScore]_vars

\* ------------------------------------------ positionBlend on its own (SpecBlend)
InitBlend ==
    /\ pc = "positionBlend"
    /\ rrfRank \in 1..RERANK_TOP
    /\ rerankerScore \in BlendScores
    /\ blended = <<0, 1>>
    /\ ExpandIdle /\ RetrieveIdle /\ RerankIdle /\ ScoreIdle
    /\ CommandsIdle

CallPositionBlend ==
    /\ pc = "positionBlend"
    /\ blended' = positionBlend(rrfRank, rerankerScore)
    /\ pc' = "blendDone"
    /\ UNCHANGED <<rrfRank, rerankerScore, expandVars, retrieveVars, rerankVars, scoreVars, commandVars>>

NextBlend == CallPositionBlend

SpecBlend == InitBlend /\ [][NextBlend]_vars

\* -------------------------------------------- expandQuery on its own (SpecExpand)
InitExpand ==
    /\ pc = "expandQuery"
    /\ query \in Queries
    /\ expandOutcome \in ExpandOutcomes
    /\ queries = <<>>
    /\ expandCalls = 0
    /\ RetrieveIdle /\ RerankIdle /\ ScoreIdle /\ BlendIdle
    /\ CommandsIdle

\* expandQuery issues its one request and returns on whatever comes back.
CallExpandQuery ==
    /\ pc = "expandQuery"
    /\ expandCalls' = expandCalls + 1
    /\ queries' = expandQuery(query, expandOutcome)
    /\ pc' = "expandDone"
    /\ UNCHANGED <<query, expandOutcome, retrieveVars, rerankVars, scoreVars, blendVars, commandVars>>

NextExpand == CallExpandQuery

SpecExpand == InitExpand /\ [][NextExpand]_vars

\* ------------------------------------------- searchBM25 on its own (SpecBM25)
InitBM25 ==
    /\ pc = "searchBM25"
    /\ query \in BM25Queries
    /\ ftsOutcome \in FtsOutcomes
    /\ ftsQuery = <<>>
    /\ ftsCalls = 0
    /\ bm25Results = <<>>
    /\ expandOutcome = [kind |-> "none"]
    /\ queries = <<>>
    /\ expandCalls = 0
    /\ RetrieveIdle /\ RerankIdle /\ ScoreIdle /\ BlendIdle
    /\ VectorIdle /\ CliIdle /\ IndexIdle

\* searchBM25(query)
CallSearchBM25 ==
    /\ pc = "searchBM25"
    /\ LET r == searchBM25(query, ftsOutcome)
       IN /\ ftsQuery' = r.ftsQuery
          /\ ftsCalls' = IF r.queried THEN ftsCalls + 1 ELSE ftsCalls
          /\ bm25Results' = r.results
          /\ pc' = IF r.threw THEN "threw" ELSE "bm25Done"
    /\ UNCHANGED <<ftsOutcome, expandVars, retrieveVars, rerankVars, scoreVars,
                   blendVars, vectorVars, cliVars, indexVars>>

NextBM25 == CallSearchBM25

SpecBM25 == InitBM25 /\ [][NextBM25]_vars

\* ------------------------------------------------- searchVector (SpecVector)
InitVector ==
    /\ pc = "searchVector"
    /\ query \in Queries
    /\ expandOutcome = [kind |-> "none"]
    /\ queries = <<>>
    /\ expandCalls = 0
    /\ RetrieveIdle /\ RerankIdle /\ ScoreIdle /\ BlendIdle
    /\ CommandsIdle

\* const queries = await expandQuery(query); const docScores = new Map()
VectorExpand ==
    /\ pc = "searchVector"
    /\ \E out \in VectorExpandOutcomes :
        /\ expandOutcome' = out
        /\ queries' = expandQuery(query, out)
    /\ expandCalls' = expandCalls + 1
    /\ docScores' = <<>>
    /\ variant' = 0
    /\ pc' = "vectorLoop"
    /\ UNCHANGED <<query, retrieveVars, rerankVars, scoreVars, blendVars,
                   vectorResults, lexicalVars, cliVars, indexVars>>

\* One turn of the loop over the queries: the embedding request erroring
\* rejects searchVector, no embedding skips the variant, an embedding is
\* matched against the vector table and the scores of its rows are kept.
VectorVariant ==
    /\ pc = "vectorLoop"
    /\ variant < Len(queries)
    /\ \E out \in QueryEmbedOutcomes :
        /\ embedOutcomes' = Append(embedOutcomes, out)
        /\ IF out.kind = "throw"
           THEN /\ pc' = "threw"
                /\ UNCHANGED <<docScores, variant>>
           ELSE /\ pc' = "vectorLoop"
                /\ variant' = variant + 1
                /\ docScores' =
                    IF out.kind = "ok"
                    THEN setDocScores(docScores,
                                      nearest(out.embedding, VecDocs, VECTOR_LIMIT * 2))
                    ELSE docScores
    /\ UNCHANGED <<retrieved, resultSets, rrfScores, expandVars, rerankVars,
                   scoreVars, blendVars, vectorResults, lexicalVars, cliVars,
                   indexVars>>

\* After the loop: [] for an empty map, else the top limit entries with their
\* document rows.
VectorReturn ==
    /\ pc = "vectorLoop"
    /\ variant = Len(queries)
    /\ vectorResults' =
        IF Len(docScores) = 0 THEN <<>> ELSE topDocs(docScores, VECTOR_LIMIT, VecDocs)
    /\ pc' = "vectorDone"
    /\ UNCHANGED <<docScores, variant, expandVars, retrieveVars, rerankVars,
                   scoreVars, blendVars, lexicalVars, cliVars, indexVars>>

NextVector == VectorExpand \/ VectorVariant \/ VectorReturn

SpecVector == InitVector /\ [][NextVector]_vars

\* --------------------------------------------------- searchCombined (Spec)
\* (the commands search, vsearch and query follow as SpecCLI)
Init ==
    /\ pc = "start"
    /\ query \in Queries
    /\ expandOutcome = [kind |-> "none"]
    /\ queries = <<>>
    /\ expandCalls = 0
    /\ RetrieveIdle /\ RerankIdle /\ ScoreIdle /\ BlendIdle
    /\ CommandsIdle

\* const queries = await expandQuery(query)
ExpandFrom(O) ==
    /\ pc = "start"
    /\ \E out \in O :
        /\ expandOutcome' = out
        /\ queries' = expandQuery(query, out)
    /\ expandCalls' = expandCalls + 1
    /\ pc' = "retrieveOriginal"
    /\ UNCHANGED <<query, retrieveVars, rerankVars, scoreVars, blendVars, commandVars>>

Expand == ExpandFrom(PipelineExpandOutcomes)

\* searchBM25(original, 50) and await searchVectorSingle(original, 50): the
\* embedding request erroring rejects searchCombined.
RetrieveOriginalFrom(R, E) ==
    /\ pc = "retrieveOriginal"
    /\ \E b \in R, e \in E :
        /\ embedOutcomes' = <<e.kind>>
        /\ IF e.kind = "throw"
           THEN /\ pc' = "threw"
                /\ retrieved' = [retrieved EXCEPT !.bm25Original = b]
           ELSE /\ pc' = "retrieveExpanded"
                /\ retrieved' = [retrieved EXCEPT !.bm25Original = b,
                                                  !.vecOriginal = searchVectorSingle(e)]
    /\ UNCHANGED <<resultSets, rrfScores, expandVars, rerankVars, scoreVars, blendVars, commandVars>>

RetrieveOriginal == RetrieveOriginalFrom(Rankings, EmbedOutcomes)

\* expanded.map(searchBM25) and await Promise.all(expanded.map(searchVectorSingle)):
\* one embedding request erroring rejects the Promise.all and searchCombined.
RetrieveExpandedFrom(R, E) ==
    /\ pc = "retrieveExpanded"
    /\ LET n == Len(queries) - 1
       IN \E bs \in [1..n -> R], es \in [1..n -> E] :
            /\ embedOutcomes' = embedOutcomes \o [k \in 1..n |-> es[k].kind]
            /\ IF \E k \in 1..n : es[k].kind = "throw"
               THEN /\ pc' = "threw"
                    /\ retrieved' = [retrieved EXCEPT !.bm25Expanded = bs]
               ELSE /\ pc' = "fuse"
                    /\ retrieved' =
                        [retrieved EXCEPT
                            !.bm25Expanded = bs,
                            !.vecExpanded = [k \in 1..n |-> searchVectorSingle(es[k])]]
    /\ UNCHANGED <<resultSets, rrfScores, expandVars, rerankVars, scoreVars, blendVars, commandVars>>

RetrieveExpanded == RetrieveExpandedFrom(Rankings, EmbedOutcomes)

\* const rrfScores = rrfFusion([...])
Fuse ==
    /\ pc = "fuse"
    /\ resultSets' = fusionInput(retrieved)
    /\ rrfScores' = rrfFusion(fusionInput(retrieved))
    /\ pc' = "sortFused"
    /\ UNCHANGED <<embedOutcomes, retrieved, expandVars, rerankVars, scoreVars,
                   blendVars, commandVars>>

\* const sorted = [...rrfScores.values()].sort(...).slice(0, 30)
SortFused ==
    /\ pc = "sortFused"
    /\ sorted' = fusedTop(rrfScores)
    /\ pc' = "callRerank"
    /\ UNCHANGED <<batchStart, inflight, batchResults, started, failedRequests,
                   rerankResponses, rerankQuery, scores, final, expandVars,
                   retrieveVars, scoreVars, blendVars, commandVars>>

\* rerankWithLLM(original, sorted.map((s) => s.doc)) is entered: an empty map,
\* i = 0.  The retrieval results and the fusion map are not read again.
CallRerank ==
    /\ pc = "callRerank"
    /\ rerankQuery' = queries[1]
    /\ scores' = <<>>
    /\ batchStart' = 0
    /\ retrieved' = NothingRetrieved
    /\ resultSets' = <<>>
    /\ rrfScores' = <<>>
    /\ pc' = "rerank"
    /\ UNCHANGED <<embedOutcomes, sorted, inflight, batchResults, started,
                   failedRequests, rerankResponses, final, expandVars, scoreVars,
                   blendVars, commandVars>>

\* The loop body up to the await: the batch is sliced and every request of it
\* is issued.
StartBatch ==
    /\ pc = "rerank"
    /\ batchStart < Len(sorted)
    /\ inflight' = (batchStart + 1)..batchEnd(batchStart, Len(sorted))
    /\ started' = started \cup ((batchStart + 1)..batchEnd(batchStart, Len(sorted)))
    /\ batchResults' = <<>>
    /\ pc' = "awaitBatch"
    /\ UNCHANGED <<sorted, batchStart, failedRequests, rerankResponses, rerankQuery,
                   scores, final, expandVars, retrieveVars, scoreVars, blendVars, commandVars>>

\* The request of the candidate at position k resolves with out:
\* rerankSingleDoc returns its score.
ResolveRerankWith(k, out) ==
    /\ pc = "awaitBatch"
    /\ k \in inflight
    /\ inflight' = inflight \ {k}
    /\ batchResults' = (k :> rerankSingleDoc(out)) @@ batchResults
    /\ failedRequests' =
        IF out.kind \in {"throw", "notok"} THEN failedRequests \cup {k}
        ELSE failedRequests
    /\ rerankResponses' = (k :> out) @@ rerankResponses
    /\ UNCHANGED <<pc, sorted, batchStart, started, rerankQuery, scores, final,
                   expandVars, retrieveVars, scoreVars, blendVars, commandVars>>

\* One request of the batch resolves, with any outcome.
ResolveRerank == \E k \in inflight, out \in RerankOutcomes : ResolveRerankWith(k, out)

\* Promise.all resolves once every request of the batch has: the scores are
\* set in batch order and i advances.
FinishBatch ==
    /\ pc = "awaitBatch"
    /\ inflight = {}
    /\ scores' = setAll(scores, batchResults, sorted)
    /\ batchStart' = batchStart + RERANK_CONCURRENCY
    /\ batchResults' = <<>>
    /\ pc' = "rerank"
    /\ UNCHANGED <<sorted, inflight, started, failedRequests, rerankResponses,
                   rerankQuery, final, expandVars, retrieveVars, scoreVars, blendVars, commandVars>>

\* The loop ends, rerankWithLLM returns, and searchCombined blends, sorts and
\* truncates.
ReturnResults ==
    /\ pc = "rerank"
    /\ batchStart >= Len(sorted)
    /\ final' = finalResults(sorted, scores, DEFAULT_LIMIT)
    /\ pc' = "done"
    /\ UNCHANGED <<sorted, batchStart, inflight, batchResults, started,
                   failedRequests, rerankResponses, rerankQuery, scores, expandVars,
                   retrieveVars, scoreVars, blendVars, commandVars>>

Next ==
    \/ Expand
    \/ RetrieveOriginal
    \/ RetrieveExpanded
    \/ Fuse
    \/ SortFused
    \/ CallRerank
    \/ StartBatch
    \/ ResolveRerank
    \/ FinishBatch
    \/ ReturnResults

Spec == Init /\ [][Next]_vars

\* --------------------- searchCombined from the rerankWithLLM call on (SpecRerank)
\* The fused list holds up to MaxRerankDocs candidates.
InitRerank ==
    /\ pc = "rerank"
    /\ \E n \in 0..MaxRerankDocs : sorted = [k \in 1..n |-> k]
    /\ batchStart = 0
    /\ inflight = {}
    /\ batchResults = <<>>
    /\ started = {}
    /\ failedRequests = {}
    /\ rerankResponses = <<>>
    /\ rerankQuery = <<>>
    /\ scores = <<>>
    /\ final = <<>>
    /\ ExpandIdle /\ RetrieveIdle /\ ScoreIdle /\ BlendIdle
    /\ CommandsIdle

NextRerank ==
    \/ StartBatch
    \/ ResolveRerank
    \/ FinishBatch
    \/ ReturnResults

SpecRerank == InitRerank /\ [][NextRerank]_vars

\* One request of the batch resolves, with a failure or with a success.
ResolveRerankEither ==
    \E k \in inflight, out \in SuccessOrFailure : ResolveRerankWith(k, out)

\* The reranking under fairness: the loop's own steps run whenever they can
\* (the event loop resumes the function), and a request in flight eventually
\* resolves, with a success or with a failure.
RerankFairness ==
    /\ WF_vars(StartBatch)
    /\ WF_vars(ResolveRerankEither)
    /\ WF_vars(FinishBatch)
    /\ WF_vars(ReturnResults)

NextRerankFair ==
    \/ StartBatch
    \/ ResolveRerankEither
    \/ FinishBatch
    \/ ReturnResults

SpecRerankFair == InitRerank /\ [][NextRerankFair]_vars /\ RerankFairness

\* ------------- searchCombined up to the fused list, several variants (SpecVariants)
ExpandWide == ExpandFrom(WideExpandOutcomes)

RetrieveOriginalFew == RetrieveOriginalFrom(FewRankings, FewEmbedOutcomes)

RetrieveExpandedFew == RetrieveExpandedFrom(FewRankings, FewEmbedOutcomes)

NextVariants ==
    \/ ExpandWide
    \/ RetrieveOriginalFew
    \/ RetrieveExpandedFew
    \/ Fuse
    \/ SortFused

SpecVariants == Init /\ [][NextVariants]_vars

\* ------------- searchCombined from the fused map on, around the top-30 cut (SpecTop)
InitTop ==
    /\ pc = "sortFused"
    /\ query \in Queries
    /\ expandOutcome = [kind |-> "ok", response |-> <<"1", ".", " ", "b">>]
    /\ queries = expandQuery(query, expandOutcome)
    /\ expandCalls = 1
    /\ embedOutcomes = <<>>
    /\ retrieved = NothingRetrieved
    /\ resultSets = <<>>
    /\ rrfScores \in TopFusions
    /\ RerankIdle /\ ScoreIdle /\ BlendIdle
    /\ CommandsIdle

\* One request of the batch resolves with the response for its candidate.
ResolveRerankJudged == \E k \in inflight : ResolveRerankWith(k, judgement(sorted[k]))

NextTop ==
    \/ SortFused
    \/ CallRerank
    \/ StartBatch
    \/ ResolveRerankJudged
    \/ FinishBatch
    \/ ReturnResults

SpecTop == InitTop /\ [][NextTop]_vars

\* ------------------------------------- index, embed and the directory (SpecIndex)
InitIndex ==
    /\ pc = "indexed"
    /\ disk = <<>>
    /\ documents = {}
    /\ documentsFts = {}
    /\ documentEmbeddings = {}
    /\ nextId = 1
    /\ ExpandIdle /\ RetrieveIdle /\ RerankIdle /\ ScoreIdle /\ BlendIdle
    /\ LexicalIdle /\ VectorIdle /\ CliIdle

idleVars == <<expandVars, retrieveVars, rerankVars, scoreVars, blendVars,
              lexicalVars, vectorVars, cliVars>>

\* A file is written between two runs: created, or changed.
FsWrite ==
    /\ \E p \in FilePaths, c \in Contents :
        /\ p \in DOMAIN disk => disk[p] # c
        /\ disk' = (p :> c) @@ disk
    /\ pc' = "fs"
    /\ UNCHANGED <<documents, documentsFts, documentEmbeddings, nextId, idleVars>>

\* A file is deleted between two runs.
FsDelete ==
    /\ \E p \in DOMAIN disk :
        disk' = [q \in DOMAIN disk \ {p} |-> disk[q]]
    /\ pc' = "fs"
    /\ UNCHANGED <<documents, documentsFts, documentEmbeddings, nextId, idleVars>>

\* indexFiles(path): the files are discovered in some order and indexed, then
\* the documents whose file is gone are removed with their full-text and
\* embedding rows.
IndexRun ==
    /\ nextId + Cardinality(DOMAIN disk) <= MaxDocId + 1
    /\ \E order \in Orders(DOMAIN disk) :
        LET db == indexLoop([documents |-> documents, documentsFts |-> documentsFts,
                             nextId |-> nextId, names |-> {}], disk, order)
            gone == removedIds(db.documents, disk)
        IN /\ documents' = {d \in db.documents : d.id \notin gone}
           /\ documentsFts' = {f \in db.documentsFts : f.rowid \notin gone}
           /\ documentEmbeddings' = {e \in documentEmbeddings : e.document_id \notin gone}
           /\ nextId' = db.nextId
    /\ pc' = "indexed"
    /\ UNCHANGED <<disk, idleVars>>

\* indexFiles(path, true): dropCollection
IndexDrop ==
    /\ documents # {}
    /\ documents' = {}
    /\ documentsFts' = {f \in documentsFts : f.rowid \notin {d.id : d \in documents}}
    /\ documentEmbeddings' =
        {e \in documentEmbeddings : e.document_id \notin {d.id : d \in documents}}
    /\ UNCHANGED <<pc, disk, nextId, idleVars>>

\* embedDocuments(force): the documents without an embedding of their current
\* hash are embedded; the requests of some of them give no vector.
EmbedRun ==
    /\ \E force \in BOOLEAN :
        LET kept == IF force THEN {} ELSE documentEmbeddings
            needing == {d \in documents :
                          \A e \in kept : e.document_id = d.id => e.hash # d.hash}
        IN /\ needing # {}
           /\ \E embedded \in SUBSET needing :
                documentEmbeddings' =
                    {e \in kept : e.document_id \notin {d.id : d \in embedded}}
                    \cup {[document_id |-> d.id, hash |-> d.hash] : d \in embedded}
    /\ UNCHANGED <<pc, disk, documents, documentsFts, nextId, idleVars>>

NextIndex == FsWrite \/ FsDelete \/ IndexRun \/ IndexDrop \/ EmbedRun

SpecIndex == InitIndex /\ [][NextIndex]_vars

\* ------------------------------- the commands search, vsearch, query (SpecCLI)
InitCLI ==
    /\ pc = "cli"
    /\ cmd \in {"search", "vsearch", "query"}
    /\ rawArgs \in ArgLists
    /\ exitCode = -1
    /\ cliOutput = ""
    /\ ftsOutcome \in (IF cmd = "search" THEN FtsOutcomes ELSE {[kind |-> "none"]})
    /\ ftsQuery = <<>>
    /\ ftsCalls = 0
    /\ bm25Results = <<>>
    /\ ExpandIdle /\ RetrieveIdle /\ RerankIdle /\ ScoreIdle /\ BlendIdle
    /\ VectorIdle /\ IndexIdle

\* The branch of command c up to its search call: the query is put together
\* and checked; too short, the message is logged and the process exits with
\* 1, else the search function at entry is called with it.
Dispatch(c, entry) ==
    /\ pc = "cli"
    /\ cmd = c
    /\ LET q == commandQuery(c, rawArgs)
       IN IF tooShort(q)
          THEN /\ cliOutput' = USAGE_ERROR
               /\ exitCode' = 1
               /\ pc' = "exited"
               /\ UNCHANGED query
          ELSE /\ query' = q
               /\ pc' = entry
               /\ UNCHANGED <<cliOutput, exitCode>>
    /\ UNCHANGED <<cmd, rawArgs, expandOutcome, queries, expandCalls, retrieveVars,
                   rerankVars, scoreVars, blendVars, lexicalVars, vectorVars,
                   indexVars>>

DispatchSearch == Dispatch("search", "searchBM25")

DispatchVsearch == Dispatch("vsearch", "searchVector")

DispatchQuery == Dispatch("query", "start")

\* The search function has returned: no result is reported and exits with 0,
\* results are printed.
PrintResults ==
    /\ pc \in {"bm25Done", "vectorDone", "done"}
    /\ LET results == IF pc = "bm25Done" THEN bm25Results
                      ELSE IF pc = "vectorDone" THEN vectorResults ELSE final
       IN IF Len(results) = 0
          THEN cliOutput' = NO_RESULTS /\ exitCode' = 0
          ELSE cliOutput' = "results" /\ UNCHANGED exitCode
    /\ pc' = "exited"
    /\ UNCHANGED <<cmd, rawArgs, expandVars, retrieveVars, rerankVars, scoreVars,
                   blendVars, lexicalVars, vectorVars, indexVars>>

NextCLI ==
    \/ DispatchSearch
    \/ DispatchVsearch
    \/ DispatchQuery
    \/ CallSearchBM25
    \/ NextVector
    \/ Next
    \/ PrintResults

SpecCLI == InitCLI /\ [][NextCLI]_vars

\* =================================================== properties: rrfFusion
\* 1-based position of id in a ranked list, 0 when absent.
PositionIn(results, id) ==
    IF \E k \in 1..Len(results) : results[k] = id
    THEN CHOOSE k \in 1..Len(results) : results[k] = id
    ELSE 0

\* Sum of weight/(rank + 60) over the first k sets that contain id, in units of
\* 1/RRFDenom.
RECURSIVE ExpectedRRF(_, _, _)
ExpectedRRF(sets, k, id) ==
    IF k = 0 THEN 0
    ELSE ExpectedRRF(sets, k - 1, id)
         + (IF PositionIn(sets[k].results, id) # 0
            THEN (sets[k].weight * RRFDenom) \div (PositionIn(sets[k].results, id) + 60)
            ELSE 0)

FirstWith(lps, label) ==
    LET hits == {k \in 1..Len(lps) : includes(toLowerCase(lps[k].token), label)}
    IN IF hits = {} THEN 0 ELSE CHOOSE k \in hits : \A h \in hits : k <= h

\* exp(logprob) clamped to [0, 1], in tenths.
Confidence(lp) == IF exp(lp) > 10 THEN 10 ELSE IF exp(lp) < 0 THEN 0 ELSE exp(lp)

DecidesYes(lps) ==
    FirstWith(lps, YES) # 0
    /\ (FirstWith(lps, NO) = 0 \/ FirstWith(lps, YES) < FirstWith(lps, NO))

DecidesNo(lps) ==
    FirstWith(lps, NO) # 0
    /\ (FirstWith(lps, YES) = 0 \/ FirstWith(lps, NO) < FirstWith(lps, YES))

\* C5 (as stated): whenever some token contains "yes" or "no" the label whose
\* first containing token comes first decides and its mapped score is
\* returned; 0.5 is returned only when no token contains either label.
C5_AsStated ==
    pc = "scoreDone" =>
        /\ DecidesYes(logprobs) =>
            rerankScore = 60 + 4 * Confidence(logprobs[FirstWith(logprobs, YES)].logprob)
        /\ DecidesNo(logprobs) =>
            rerankScore = 40 - 4 * Confidence(logprobs[FirstWith(logprobs, NO)].logprob)
        /\ rerankScore = 50 =>
            FirstWith(logprobs, YES) = 0 /\ FirstWith(logprobs, NO) = 0

\* C5 (amended): the label whose first containing token has the strictly
\* smaller index decides (a label that is the only one present decides) and
\* its mapped score is returned; 0.5 is returned exactly when no token
\* contains either label or the first token containing "yes" is also the
\* first token containing "no".
C5_FirstLabelWins ==
    pc = "scoreDone" =>
        /\ DecidesYes(logprobs) =>
            rerankScore = 60 + 4 * Confidence(logprobs[FirstWith(logprobs, YES)].logprob)
        /\ DecidesNo(logprobs) =>
            rerankScore = 40 - 4 * Confidence(logprobs[FirstWith(logprobs, NO)].logprob)
        /\ rerankScore = 50 <=> FirstWith(logprobs, YES) = FirstWith(logprobs, NO)

\* Both labels occur, "no" first, and the "no" score is returned.
C5_Witness ==
    /\ pc = "scoreDone"
    /\ FirstWith(logprobs, NO) = 1
    /\ FirstWith(logprobs, YES) = 2
    /\ rerankScore = 40 - 4 * Confidence(logprobs[1].logprob)

RECURSIVE GCD(_, _)
GCD(a, b) == IF b = 0 THEN a ELSE GCD(b, a % b)

\* A rational in lowest terms.
Reduce(r) == <<r[1] \div GCD(r[1], r[2]), r[2] \div GCD(r[1], r[2])>>

\* The retrieval weight in percent, by rank tier.
TierPercent(rank) == IF rank <= 3 THEN 75 ELSE IF rank <= 10 THEN 60 ELSE 40

\* C9: positionBlend(rank, c) = w * (1/rank) + (1 - w) * c with w = 0.75 for
\* ranks 1-3, 0.6 for ranks 4-10 and 0.4 from rank 11 on; rank 1 with c = 1.0
\* gives 1.0 and rank 15 with c = 0.0 gives 0.4/15.
C9_PositionBlend ==
    pc = "blendDone" =>
        /\ Reduce(blended) =
            Reduce(<<TierPercent(rrfRank) * 100
                        + (100 - TierPercent(rrfRank)) * rerankerScore * rrfRank,
                     10000 * rrfRank>>)
        /\ (rrfRank = 1 /\ rerankerScore = 100) => RatEq(blended, <<1, 1>>)
        /\ (rrfRank = 15 /\ rerankerScore = 0) => RatEq(blended, <<4, 150>>)

\* Rank 3, the last rank of the first tier, blended with confidence 0.5.
C9_Witness ==
    /\ pc = "blendDone"
    /\ rrfRank = 3
    /\ rerankerScore = 50
    /\ Reduce(blended) = <<3, 8>>

\* ================================================= properties: expandQuery
\* C8: expandQuery returns a non-empty list whose first element is the query
\* verbatim, followed by at most 3 non-empty alternates; when the model call
\* fails (request error, non-success status, empty body) the list is exactly
\* <<query>>; one request is issued.
C8_ExpandQuery ==
    pc = "expandDone" =>
        /\ Len(queries) >= 1
        /\ queries[1] = query
        /\ Len(queries) <= 1 + 3
        /\ \A k \in 2..Len(queries) : Len(queries[k]) > 0
        /\ (\/ expandOutcome.kind \in {"throw", "notok", "nobody"}
            \/ expandOutcome.response = <<>>) => queries = <<query>>
        /\ expandCalls = 1

\* An answer of four usable lines, of which three are kept, for a query that
\* itself starts with a bullet.
C8_Witness ==
    /\ pc = "expandDone"
    /\ expandOutcome.kind = "ok"
    /\ Len(SelectSeq(split(expandOutcome.response), NonEmpty)) = 4
    /\ Len(queries) = 4
    /\ query = <<"-", " ", "a">>
    /\ queries[1] = query

\* ============================================== properties: searchCombined
\* The final score of the candidate at fused rank k, when it is in the result.
FinalScoreIs(k, expected) ==
    \A f \in 1..Len(final) :
        final[f].id = sorted[k] => RatEq(final[f].score, expected)

\* w * (1/rank) + (1 - w) * c for the tiered retrieval weight w, c in hundredths.
ExpectedBlend(rank, c) ==
    <<TierPercent(rank) * 100 + (100 - TierPercent(rank)) * c * rank, 10000 * rank>>

\* C2: a candidate whose rerank request failed (non-success status or the
\* request erroring) is blended with the neutral confidence 0.5: its final
\* score is retrievalWeight * (1/rank) + (1 - retrievalWeight) * 0.5.
C2_FailedRerankIsNeutral ==
    pc = "done" =>
        \A k \in failedRequests : FinalScoreIs(k, ExpectedBlend(k, 50))

\* C3: every candidate with a recorded confidence c in [0, 1], c = 0.0
\* included, gets final score retrievalWeight * (1/rank) + (1 - retrievalWeight) * c;
\* 0.5 is substituted only for candidates without a reranker entry.
C3_RecordedConfidenceIsUsed ==
    pc = "done" =>
        \A k \in 1..Len(sorted) :
            IF sorted[k] \in DOMAIN scores
            THEN (scores[sorted[k]] >= 0 /\ scores[sorted[k]] <= 100)
                    => FinalScoreIs(k, ExpectedBlend(k, scores[sorted[k]]))
            ELSE FinalScoreIs(k, ExpectedBlend(k, 50))

\* Every embedding request made so far failed in some way.
AllEmbeddingsFailed ==
    /\ Len(embedOutcomes) > 0
    /\ \A k \in 1..Len(embedOutcomes) : embedOutcomes[k] \in {"throw", "notok", "missing"}

\* The lexical result sets alone, with their weights.
LexicalOnly(r) ==
    <<[results |-> r.bm25Original, weight |-> 2]>>
    \o [k \in 1..Len(r.bm25Expanded) |-> [results |-> r.bm25Expanded[k], weight |-> 1]]

\* C4: when embedding fails in any way (non-success status, missing embedding
\* field, the request erroring) for every query variant, searchCombined
\* propagates no error and ranks the candidates fused from the lexical result
\* sets alone.
C4_EmbeddingFailureIsAbsorbed ==
    AllEmbeddingsFailed =>
        /\ pc # "threw"
        /\ pc = "callRerank" =>
            /\ rrfScores = rrfFusion(LexicalOnly(retrieved))
            /\ sorted = fusedTop(rrfFusion(LexicalOnly(retrieved)))

\* ================================================ properties: rerankWithLLM
\* 0-based number of the batch a position of the candidate list belongs to.
BatchOf(k) == (k - 1) \div 5

\* C7: rerank requests are issued in consecutive batches of at most 5
\* candidates in input order: never more than 5 requests are in flight, and
\* no request of a batch is started before every request of the earlier
\* batches has resolved.
C7_SequentialBatches ==
    /\ Cardinality(inflight) <= 5
    /\ inflight \subseteq started
    /\ \A k \in started : \A j \in 1..k : j \in started
    /\ \A k \in inflight, j \in inflight : BatchOf(j) = BatchOf(k)
    /\ \A k \in started : \A j \in 1..Len(sorted) :
        BatchOf(j) < BatchOf(k) => j \in started /\ j \notin inflight /\ sorted[j] \in DOMAIN scores

\* The second batch is in flight after a first batch of 5 in which a request failed.
C7_Witness ==
    /\ pc = "awaitBatch"
    /\ batchStart = 5
    /\ inflight = {6}
    /\ started = 1..6
    /\ failedRequests \cap (1..5) # {}
    /\ \A j \in 1..5 : sorted[j] \in DOMAIN scores

\* C10: the returned list is in descending order of blended score, candidates
\* of equal blended score keep the order fusion produced them in, and the
\* list holds at most limit entries, each identifier at most once.
C10_FinalOrder ==
    pc = "done" =>
        /\ Len(final) <= DEFAULT_LIMIT
        /\ \A a, b \in 1..Len(final) :
            a < b =>
                /\ ~RatLess(final[a].score, final[b].score)
                /\ final[a].id # final[b].id
                /\ RatEq(final[a].score, final[b].score) =>
                    PositionIn(sorted, final[a].id) < PositionIn(sorted, final[b].id)
        /\ \A a \in 1..Len(final) :
            /\ PositionIn(sorted, final[a].id) # 0
            /\ RatEq(final[a].score,
                     positionBlend(PositionIn(sorted, final[a].id),
                                   lookupRerankerScore(scores, final[a].id)))

\* Six candidates, of which five are returned: the reranker moved the second
\* candidate to the front, and two candidates tie.
C10_Witness ==
    /\ pc = "done"
    /\ Len(sorted) = 6
    /\ Len(final) = 5
    /\ final[1].id = sorted[2]
    /\ \E a \in 1..4 : RatEq(final[a].score, final[a + 1].score)

\* ====================================== properties: determinism of the result
\* The result computed from the fused order and each candidate's rerank
\* response alone: the candidate at rank k is blended with the score of its own
\* response (0.5 for a score of 0), the list is sorted by descending blended
\* score, equal scores in fused order, and cut to the limit.
ResultOf(ids, responses) ==
    LET own(k) == rerankSingleDoc(responses[k])
        conf(k) == IF own(k) = 0 THEN NEUTRAL_SCORE ELSE own(k)
        entries == [k \in 1..Len(ids) |-> [id |-> ids[k], score |-> positionBlend(k, conf(k))]]
    IN Take(sortBlendedDesc(entries), DEFAULT_LIMIT)

\* C11: the ordered result and its scores are a function of the fused
\* candidates and of the model's response for each candidate: two runs with
\* the same query, corpus and responses return the same list, whatever the
\* order in which the concurrent rerank requests resolve.
C11_ResultIsDetermined ==
    pc = "done" =>
        /\ DOMAIN rerankResponses = 1..Len(sorted)
        /\ final = ResultOf(sorted, rerankResponses)

\* Six candidates in two batches, answered differently (a failure, a "no", a
\* "yes"), all judged.
C11_Witness ==
    /\ pc = "done"
    /\ Len(sorted) = 6
    /\ rerankResponses[1].kind = "notok"
    /\ rerankResponses[2].kind = "ok" /\ rerankResponses[2].logprobs # <<>>
    /\ rerankResponses[6].kind = "ok" /\ rerankResponses[6].logprobs = <<>>
    /\ final = ResultOf(sorted, rerankResponses)

\* =============================================== properties: searchBM25
\* The number of characters of q from its first to its last non-whitespace one.
TrimmedLength(q) ==
    LET kept == {k \in 1..Len(q) : q[k] \notin {" ", "\t", "\r", "\n"}}
    IN IF kept = {} THEN 0
       ELSE (CHOOSE k \in kept : \A j \in kept : j <= k)
            - (CHOOSE k \in kept : \A j \in kept : k <= j) + 1

\* C12: searchBM25 returns the empty list and does not throw when the query
\* has fewer than 2 characters after trimming, in which case the full-text
\* engine is not queried, and when the engine raises an error for the
\* expression built.
C12_EmptyNotError ==
    pc \in {"bm25Done", "threw"} =>
        /\ TrimmedLength(query) < 2 =>
            pc = "bm25Done" /\ bm25Results = <<>> /\ ftsCalls = 0
        /\ ftsOutcome.kind = "error" =>
            pc = "bm25Done" /\ bm25Results = <<>>

\* The engine was queried with a multi-term expression, raised an error, and
\* searchBM25 returned the empty list.
C12_Witness ==
    /\ pc = "bm25Done"
    /\ ftsOutcome.kind = "error"
    /\ ftsCalls = 1
    /\ ~IsNull(ftsQuery) /\ Len(ftsQuery[1]) > Len(query)
    /\ bm25Results = <<>>

\* =============================================== properties: searchVector
\* The variants whose embedding request gave a vector.
EmbeddedVariants == {v \in 1..Len(embedOutcomes) : embedOutcomes[v].kind = "ok"}

\* The documents among the 2 * limit nearest of variant v.
RetrievedUnder(v) ==
    LET e == embedOutcomes[v].embedding
    IN {d \in VecDocs :
          Cardinality({x \in VecDocs : distance(e, x) < distance(e, d)}) < 2 * VECTOR_LIMIT}

VariantsOf(d) == {v \in EmbeddedVariants : d \in RetrievedUnder(v)}

\* The smallest distance of d over the variants that retrieved it: the
\* largest 1/(distance+1).
BestDistance(d) ==
    LET ds == {distance(embedOutcomes[v].embedding, d) : v \in VariantsOf(d)}
    IN CHOOSE x \in ds : \A y \in ds : x <= y

ScoredDocs == {d \in VecDocs : VariantsOf(d) # {}}

\* C15: every returned document carries the maximum of its per-variant scores
\* 1/(distance+1), and the returned list is made of min(limit, number of
\* retrieved documents) distinct documents, in descending score order, none of
\* them scoring below a retrieved document left out.
C15_MaxPerDocumentTopLimit ==
    pc = "vectorDone" =>
        LET n == Len(vectorResults)
            returned == {vectorResults[k].id : k \in 1..n}
        IN /\ n = Min(VECTOR_LIMIT, Cardinality(ScoredDocs))
           /\ Cardinality(returned) = n
           /\ \A k \in 1..n :
                /\ vectorResults[k].id \in ScoredDocs
                /\ RatEq(vectorResults[k].score, <<1, BestDistance(vectorResults[k].id) + 1>>)
           /\ \A j, k \in 1..n :
                j < k => ~RatLess(vectorResults[j].score, vectorResults[k].score)
           /\ \A d \in ScoredDocs \ returned : \A k \in 1..n :
                ~RatLess(vectorResults[k].score, <<1, BestDistance(d) + 1>>)

\* A returned document was retrieved under two variants at different
\* distances, and more documents were scored than are returned.
C15_Witness ==
    /\ pc = "vectorDone"
    /\ Len(vectorResults) = VECTOR_LIMIT
    /\ Cardinality(ScoredDocs) > VECTOR_LIMIT
    /\ \E k \in 1..Len(vectorResults) :
        LET d == vectorResults[k].id
        IN \E v, w \in VariantsOf(d) :
            distance(embedOutcomes[v].embedding, d) < distance(embedOutcomes[w].embedding, d)

\* ================================================= properties: CLI dispatch
\* No request has been sent to the model server and the index has not been read.
NothingCalled ==
    /\ expandCalls = 0
    /\ embedOutcomes = <<>>
    /\ started = {}
    /\ ftsCalls = 0
    /\ retrieved = NothingRetrieved
    /\ docScores = <<>>
    /\ bm25Results = <<>> /\ vectorResults = <<>> /\ final = <<>>

\* C13: for search, vsearch and query, a query of fewer than 2 characters
\* after trimming ends the command with the usage message and exit code 1,
\* and at no point of the run has a network call or an index lookup been made.
C13_ShortQueryRejectedFirst ==
    TrimmedLength(commandQuery(cmd, rawArgs)) < 2 =>
        /\ NothingCalled
        /\ pc \in {"cli", "exited"}
        /\ pc = "exited" => exitCode = 1 /\ cliOutput = USAGE_ERROR

\* A query that is long enough only before trimming was rejected.
C13_Witness ==
    /\ pc = "exited"
    /\ exitCode = 1
    /\ cliOutput = USAGE_ERROR
    /\ Len(commandQuery(cmd, rawArgs)) >= 2
    /\ NothingCalled

\* ============================================ properties: the fusion input
\* What the retrieval call of a method for variant v returned (variant 1 is
\* the original query).
ReturnedFor(method, v) ==
    IF method = "bm25"
    THEN (IF v = 1 THEN retrieved.bm25Original ELSE retrieved.bm25Expanded[v - 1])
    ELSE (IF v = 1 THEN retrieved.vecOriginal ELSE retrieved.vecExpanded[v - 1])

\* The place of the pair (method, v) among the fused result sets.
PlaceOf(method, v) ==
    IF v = 1 THEN (IF method = "bm25" THEN 1 ELSE 2)
    ELSE IF method = "bm25" THEN v + 1
    ELSE Len(queries) + v

\* C14: the fused result sets are exactly one per pair of retrieval method and
\* query variant, each being what that retrieval returned, with weight 2 for
\* the two sets of the original query and weight 1 for the two sets of every
\* expansion variant; the fused scores are rrfFusion of these sets.
C14_OneSetPerMethodAndVariant ==
    pc \in {"sortFused", "callRerank"} =>
        /\ Len(resultSets) = 2 * Len(queries)
        /\ \A method \in {"bm25", "vec"}, v \in 1..Len(queries) :
            resultSets[PlaceOf(method, v)] =
                [results |-> ReturnedFor(method, v),
                 weight |-> IF v = 1 THEN 2 ELSE 1]
        /\ rrfScores = rrfFusion(resultSets)

\* Three expansion variants, eight result sets, a document found by the
\* original query and by an expansion.
C14_Witness ==
    /\ pc = "callRerank"
    /\ Len(queries) = 4
    /\ Len(resultSets) = 8
    /\ resultSets[1].results = <<2, 1>> /\ resultSets[1].weight = 2
    /\ resultSets[8].results = <<1, 2>> /\ resultSets[8].weight = 1

\* ============================================ properties: the top-30 cut
\* The fused entry at place i comes before the one at place j: a higher
\* score, or the same score and seen first.
FusedBefore(i, j) ==
    \/ rrfScores[i].score > rrfScores[j].score
    \/ rrfScores[i].score = rrfScores[j].score /\ i < j

\* sorted is the first 30 fused candidates by descending accumulated score,
\* equal scores in first-seen order.
SortedIsTopOfFused ==
    /\ Len(sorted) = Min(30, Len(rrfScores))
    /\ \A k \in 1..Len(sorted) :
        \E i \in 1..Len(rrfScores) :
            /\ rrfScores[i].id = sorted[k]
            /\ Cardinality({j \in 1..Len(rrfScores) : FusedBefore(j, i)}) = k - 1

\* C16: the reranker is called with the original query and with at most 30
\* candidates, the 30 best fused candidates by descending accumulated score
\* with equal scores in first-seen order; requests are issued for these
\* candidates only, the list is not changed afterwards, and every entry of the
\* final result is one of them.
C16_RerankTopThirty ==
    /\ [](/\ pc = "callRerank" => SortedIsTopOfFused
          /\ pc \in {"rerank", "awaitBatch", "done"} =>
                /\ rerankQuery = query
                /\ Len(sorted) <= 30
                /\ started \subseteq 1..Len(sorted)
          /\ pc = "done" =>
                \A f \in 1..Len(final) : final[f].id \in Range(sorted))
    /\ [][pc # "sortFused" => sorted' = sorted]_vars

\* More than 30 candidates were fused (the 31st seen is among the 30 kept), a
\* candidate seen later is ranked before one seen earlier, and all 30 were
\* sent to the reranker with the original query.
C16_Witness ==
    /\ pc = "done"
    /\ Len(sorted) = 30
    /\ \E k \in 1..30 : sorted[k] = 31
    /\ sorted[1] > sorted[30]
    /\ started = 1..30
    /\ rerankQuery = query
    /\ Len(final) = DEFAULT_LIMIT

\* ============================================ properties: rerank completion
\* C17: when every rerank request eventually resolves, rerankWithLLM
\* eventually returns, a request has been issued for every candidate, and the
\* returned map holds an entry for every candidate, failed requests included.
C17_RerankCompletes ==
    <>(/\ pc = "done"
       /\ started = 1..Len(sorted)
       /\ \A k \in 1..Len(sorted) : sorted[k] \in DOMAIN scores)

\* The first request of the first batch failed; the rest of its batch and the
\* second batch were judged, and every candidate has its entry.
C17_Witness ==
    /\ pc = "done"
    /\ Len(sorted) = 6
    /\ failedRequests = {1}
    /\ started = 1..6
    /\ \A k \in 1..6 : sorted[k] \in DOMAIN scores
    /\ \A k \in 2..6 : scores[sorted[k]] # FAIL_SCORE

\* ================================================== properties: indexFiles
\* No two documents of the collection have the same file name.
OneDocumentPerName == \A d, e \in documents : d.name = e.name => d = e

\* Every document, full-text row and embedding row belongs to a file on disk.
NoRowWithoutFile ==
    /\ \A d \in documents : d.path \in DOMAIN disk
    /\ \A f \in documentsFts :
        \E d \in documents : d.id = f.rowid /\ d.path \in DOMAIN disk
    /\ \A e \in documentEmbeddings :
        \E d \in documents : d.id = e.document_id /\ d.path \in DOMAIN disk

\* C18: when an index run has completed (and no file has changed since), the
\* collection holds at most one document per file name, and no document,
\* full-text or embedding row remains for a file that is not on disk.
C18_OnePerNameNoneForDeleted ==
    pc = "indexed" => OneDocumentPerName /\ NoRowWithoutFile

====
